---- MODULE Spec2Model ----
(***************************************************************************)
(* A model of openfisca_survey_manager/surveys.py: the Survey class, its   *)
(* class-level attributes, its (de)serialisation, its column index and its *)
(* value retrieval from the HDF store.                                     *)
(*                                                                         *)
(* Python values are represented as follows.                               *)
(*   - a str that is a column name: the tuple of its characters, so that   *)
(*     str.lower and the ident regular expression are computed;            *)
(*   - any other str: a TLA+ string; None in place of a str: the string    *)
(*     None below;                                                         *)
(*   - a dict or None in Survey.tables: PyDict(m) or PyNone;               *)
(*   - a DataFrame: the tuple of its columns, each [name, data], data      *)
(*     being the name the column has in the store (its values);            *)
(*   - a raised exception: the status of the call in last.                 *)
(***************************************************************************)
EXTENDS Integers, Sequences, FiniteSets, TLC

VARIABLES surveys, tables_index, store, openHandles, colReads, last

vars == <<surveys, tables_index, store, openHandles, colReads, last>>

-----------------------------------------------------------------------------
(* Bounds of the model *)

\* HDFStore handles the model lets the program open before it stops.
MaxOpen == 2
\* Longest candidate table list given to find_tables.
MaxCand == 2
\* Most columns of a table in the stores the value retrieval is checked on.
MaxCols == 2

-----------------------------------------------------------------------------
(* Python values *)

None == "<None>"
PyNone == [type |-> "NoneType"]
PyDict(m) == [type |-> "dict", items |-> m]
EmptyMap == << >>

SurveyIds == {"A", "B"}
NoSurvey == [exists |-> FALSE]

Range(f) == {f[i] : i \in DOMAIN f}

\* The one-to-one sequences over a finite set: the orders a dict or a set
\* may be iterated in.
Orders(S) == {q \in [1..Cardinality(S) -> S] : Range(q) = S}

\* Sequences without repetition of at most n elements of S.
DistinctSeqs(S, n) == UNION {Orders(T) : T \in {U \in SUBSET S : Cardinality(U) <= n}}

\* All sequences of at most n elements of S.
SeqsUpTo(S, n) == UNION {[1..k -> S] : k \in 0..n}

RECURSIVE Concat(_)
Concat(ss) == IF ss = << >> THEN << >> ELSE Head(ss) \o Concat(Tail(ss))

-----------------------------------------------------------------------------
(* str.lower and ident_re on column names *)

UpperCase == <<"A","B","C","D","E","F","G","H","I","J","K","L","M",
               "N","O","P","Q","R","S","T","U","V","W","X","Y","Z">>
LowerCase == <<"a","b","c","d","e","f","g","h","i","j","k","l","m",
               "n","o","p","q","r","s","t","u","v","w","x","y","z">>
Digits == {"0","1","2","3","4","5","6","7","8","9"}

\* The lowercase letter of each uppercase letter.
LowerOf ==
    [c \in Range(UpperCase) |-> LowerCase[CHOOSE i \in DOMAIN UpperCase : UpperCase[i] = c]]

LowerChar(c) == IF c \in DOMAIN LowerOf THEN LowerOf[c] ELSE c

\* column_name.lower()
Lower(n) == [i \in DOMAIN n |-> LowerChar(n[i])]

\* ident_re = re.compile(u"(?i)ident\d{2,4}$")
IdentLiteral == <<"i","d","e","n","t">>
IdentMinDigits == 2
IdentMaxDigits == 4

\* ident_re.match(column_name) is not None: the pattern is anchored at the
\* start by match and at the end by $.
IdentMatch(n) ==
    \E k \in IdentMinDigits..IdentMaxDigits :
        /\ Len(n) = Len(IdentLiteral) + k
        /\ Lower(SubSeq(n, 1, Len(IdentLiteral))) = IdentLiteral
        /\ \A i \in (Len(IdentLiteral) + 1)..Len(n) : n[i] \in Digits

\* The column names of the model.
c_IDENT08 == <<"I","D","E","N","T","0","8">>
c_ident08 == <<"i","d","e","n","t","0","8">>
c_Ident2024 == <<"I","d","e","n","t","2","0","2","4">>
c_ident12345 == <<"i","d","e","n","t","1","2","3","4","5">>
c_ident9 == <<"i","d","e","n","t","9">>
c_zone == <<"z","o","n","e">>
c_ident == <<"i","d","e","n","t">>
\* None where a column name is expected.
NoName == <<None>>

ColNames == {c_IDENT08, c_ident08, c_Ident2024, c_ident12345, c_ident9, c_zone}
VarNames == {c_ident, c_zone}

-----------------------------------------------------------------------------
(* DataFrame operations *)

\* store[table]: the frame of a stored table, each column carrying its values.
Frame(cols) == [i \in DOMAIN cols |-> [name |-> cols[i], data |-> cols[i]]]

\* list(df.columns)
Columns(df) == [i \in DOMAIN df |-> df[i].name]

\* df.rename(columns = mapping, inplace = True): every label that is a key of
\* the mapping is replaced, the others and all values are kept.
Rename(df, mapping) ==
    [i \in DOMAIN df |->
        [df[i] EXCEPT !.name = IF @ \in DOMAIN mapping THEN mapping[@] ELSE @]]

\* dict((column_name, column_name.lower()) for column_name in df)
LowerMapping(df) == [n \in Range(Columns(df)) |-> Lower(n)]

\* surveys.py 192-194
LowercaseStep(df) == Rename(df, LowerMapping(df))

\* A loop without the break: every matching column is renamed.
RenameAllIdent(df) ==
    [i \in DOMAIN df |->
        [df[i] EXCEPT !.name = IF IdentMatch(@) THEN c_ident ELSE @]]

\* surveys.py 196-201: the loop over the columns stops at the first match.
RenameIdentStep(df) ==
    IF \E i \in DOMAIN df : IdentMatch(df[i].name)
    THEN LET first == CHOOSE i \in DOMAIN df :
                 /\ IdentMatch(df[i].name)
                 /\ \A j \in DOMAIN df : IdentMatch(df[j].name) => i <= j
         IN Rename(df, (df[first].name :> c_ident))
    ELSE df

\* The frame after the two renaming steps of get_values.
Normalised(df, lowercase, rename_ident) ==
    LET d1 == IF lowercase THEN LowercaseStep(df) ELSE df
    IN IF rename_ident THEN RenameIdentStep(d1) ELSE d1

\* df[variables] for a list of labels: for each label in turn, every column
\* carrying it.
Select(df, labels) ==
    Concat([k \in DOMAIN labels |-> SelectSeq(df, LAMBDA c : c.name = labels[k])])

\* The difference taken against no column at all.
MissingAll(variables, df) == variables

\* set(variables) - set(df.columns)
Missing(variables, df) == variables \ Range(Columns(df))

-----------------------------------------------------------------------------
(* The Survey class *)

\* Class-level attributes (surveys.py 58-64).  tables_index is one dict
\* object held by the class: it is the variable tables_index.  No method
\* ever binds an attribute of that name on an instance.
Class_hdf5_file_path == None
Class_label == None
Class_survey_collection == None

\* self.tables_index, as every method reads it (surveys.py 131): attribute
\* lookup falls through the instance to the class.
IndexOf(s) == tables_index

TableNames == {"menage", "indiv"}
PhysNames == {"phys_indiv"}
StoreKeys == TableNames \cup PhysNames
Paths == {"a.h5", "b.h5"}
InfoKeysSorted == <<"dept", "year">>
InfoKeys == Range(InfoKeysSorted)
InfoVals == {"v"}
DescKeys == {"Rdata_table"}

Maps(K, V) == UNION {[D -> V] : D \in SUBSET K}

Put(m, k, v) == [x \in DOMAIN m \cup {k} |-> IF x = k THEN v ELSE m[x]]

\* m updated with every item of u (u wins).
Merge(m, u) == [x \in DOMAIN m \cup DOMAIN u |-> IF x \in DOMAIN u THEN u[x] ELSE m[x]]

\* A constructor without the assertion on name.
SurveyInitUnchecked(name, label, hdf5_file_path, survey_collection, kwargs) ==
    [status |-> "ok",
     obj |-> [exists |-> TRUE,
              name |-> name,
              tables |-> PyDict(EmptyMap),
              label |-> IF label # None THEN label ELSE Class_label,
              hdf5_file_path |-> IF hdf5_file_path # None THEN hdf5_file_path
                                  ELSE Class_hdf5_file_path,
              survey_collection |-> IF survey_collection # None THEN survey_collection
                                    ELSE Class_survey_collection,
              informations |-> kwargs]]

\* Survey.__init__
SurveyInit(name, label, hdf5_file_path, survey_collection, kwargs) ==
    IF name = None
    THEN [status |-> "AssertionError", obj |-> NoSurvey]
    ELSE [status |-> "ok",
          obj |-> [exists |-> TRUE,
                   name |-> name,
                   tables |-> PyDict(EmptyMap),
                   label |-> IF label # None THEN label ELSE Class_label,
                   hdf5_file_path |-> IF hdf5_file_path # None THEN hdf5_file_path
                                       ELSE Class_hdf5_file_path,
                   survey_collection |-> IF survey_collection # None THEN survey_collection
                                         ELSE Class_survey_collection,
                   informations |-> kwargs]]

\* Lexicographic order of the metadata keys of the model.
KeyLess(a, b) ==
    \E i, j \in DOMAIN InfoKeysSorted :
        /\ InfoKeysSorted[i] = a
        /\ InfoKeysSorted[j] = b
        /\ i < j

\* sorted(self.informations.iteritems()): the items as an ordered mapping.
SortedItems(m) ==
    LET q == CHOOSE o \in Orders(DOMAIN m) :
                 \A i, j \in DOMAIN o : i < j => KeyLess(o[i], o[j])
    IN [i \in DOMAIN q |-> <<q[i], m[q[i]]>>]

\* An ordered mapping is a tuple of <<key, value>> items.
Keys(od) == [i \in DOMAIN od |-> od[i][1]]
HasKey(od, k) == \E i \in DOMAIN od : od[i][1] = k
ValueAt(od, k) == od[CHOOSE i \in DOMAIN od : od[i][1] = k][2]

\* **mapping: the keyword arguments an ordered mapping expands to.
AsKwargs(od) == [k \in Range(Keys(od)) |-> ValueAt(od, k)]

\* A serialisation that leaves the path of the store out.
ToJsonNoPath(self) ==
    << <<"label", self.label>>,
       <<"name", self.name>>,
       <<"tables", self.tables>>,
       <<"informations", SortedItems(self.informations)>> >>

\* Survey.to_json
ToJson(self) ==
    << <<"hdf5_file_path", self.hdf5_file_path>>,
       <<"label", self.label>>,
       <<"name", self.name>>,
       <<"tables", self.tables>>,
       <<"informations", SortedItems(self.informations)>> >>

\* Survey.create_from_json
CreateFromJson(survey_json) ==
    LET made == SurveyInit(
                    IF HasKey(survey_json, "name") THEN ValueAt(survey_json, "name") ELSE None,
                    IF HasKey(survey_json, "label") THEN ValueAt(survey_json, "label") ELSE None,
                    IF HasKey(survey_json, "hdf5_file_path")
                        THEN ValueAt(survey_json, "hdf5_file_path") ELSE None,
                    None,
                    IF HasKey(survey_json, "informations")
                        THEN AsKwargs(ValueAt(survey_json, "informations")) ELSE EmptyMap)
    IN IF made.status # "ok" THEN made
       ELSE [made EXCEPT !.obj.tables =
                IF HasKey(survey_json, "tables") THEN ValueAt(survey_json, "tables")
                ELSE PyNone]

\* Survey.insert_table
InsertTable(self, name, kwargs) ==
    IF self.tables = PyNone
    THEN [status |-> "TypeError", obj |-> self]
    ELSE LET t == self.tables.items
             t1 == IF name \notin DOMAIN t THEN Put(t, name, EmptyMap) ELSE t
         IN [status |-> "ok",
             obj |-> [self EXCEPT !.tables = PyDict(Put(t1, name, Merge(t1[name], kwargs)))]]

-----------------------------------------------------------------------------
(* The HDF store *)

\* The outcome of get_columns: the handles it opened, and the columns or
\* the exception.
GetColumns(self, st, table) ==
    IF table = None THEN [status |-> "AssertionError", opened |-> 0, cols |-> << >>]
    ELSE IF self.hdf5_file_path = None THEN [status |-> "OpenError", opened |-> 0, cols |-> << >>]
    ELSE IF table \notin DOMAIN st[self.hdf5_file_path]
         THEN [status |-> "AssertionError", opened |-> 1, cols |-> << >>]
    ELSE [status |-> "ok", opened |-> 1, cols |-> st[self.hdf5_file_path][table]]

\* The store is open: store[table], and on KeyError
\* store[self.tables[table]["Rdata_table"]] (surveys.py 187-190).
ResolveTable(self, tbls, table) ==
    IF table \in DOMAIN tbls THEN [status |-> "ok", df |-> Frame(tbls[table])]
    ELSE IF self.tables = PyNone THEN [status |-> "TypeError", df |-> << >>]
    ELSE IF table \notin DOMAIN self.tables.items THEN [status |-> "KeyError", df |-> << >>]
    ELSE IF "Rdata_table" \notin DOMAIN self.tables.items[table]
         THEN [status |-> "KeyError", df |-> << >>]
    ELSE IF self.tables.items[table]["Rdata_table"] \notin DOMAIN tbls
         THEN [status |-> "KeyError", df |-> << >>]
    ELSE [status |-> "ok", df |-> Frame(tbls[self.tables.items[table]["Rdata_table"]])]

\* Survey.get_values.  given is FALSE when variables is None; order is the
\* order list(set(variables).intersection(df.columns)) comes out in.
GetValues(self, st, given, variables, order, table, lowercase, rename_ident) ==
    IF self.hdf5_file_path = None
    THEN [status |-> "OpenError", opened |-> 0, df |-> << >>, diff |-> {}]
    ELSE LET found == ResolveTable(self, st[self.hdf5_file_path], table)
             df == Normalised(found.df, lowercase, rename_ident)
         IN IF found.status # "ok"
            THEN [status |-> found.status, opened |-> 1, df |-> << >>, diff |-> {}]
            ELSE IF ~given
            THEN [status |-> "ok", opened |-> 1, df |-> df, diff |-> {}]
            ELSE IF Missing(variables, df) # {}
            THEN [status |-> "Exception", opened |-> 1, df |-> << >>,
                  diff |-> Missing(variables, df)]
            ELSE [status |-> "ok", opened |-> 1, df |-> Select(df, order), diff |-> {}]

\* Survey.get_value: the test of self.tables, then get_values([variable], table).
GetValue(self, st, variable, table) ==
    IF variable = NoName
    THEN [status |-> "AssertionError", opened |-> 0, df |-> << >>, diff |-> {}]
    ELSE IF self.tables = PyNone
    THEN [status |-> "TypeError", opened |-> 0, df |-> << >>, diff |-> {}]
    ELSE GetValues(self, st, TRUE, {variable}, <<variable>>, table, TRUE, TRUE)

\* A loop that does not look in the index first.
NeedsReadAlways(index, table) == TRUE

\* table not in tables_index.keys()
NeedsRead(index, table) == table \notin DOMAIN index

\* The loop of find_tables (surveys.py 132-136) over the tables left, from
\* the index, the result and the store reads made so far.
RECURSIVE FindLoop(_, _, _, _, _)
FindLoop(self, st, variable, tables, acc) ==
    IF tables = << >> THEN acc
    ELSE LET t == Head(tables)
             need == NeedsRead(acc.index, t)
             got == GetColumns(self, st, t)
         IN IF need /\ got.status # "ok"
            THEN [acc EXCEPT !.status = got.status, !.opened = @ + got.opened]
            ELSE LET idx == IF need THEN Put(acc.index, t, got.cols) ELSE acc.index
                 IN FindLoop(self, st, variable, Tail(tables),
                        [status |-> "ok",
                         index |-> idx,
                         container |-> IF variable \in Range(idx[t])
                                       THEN Append(acc.container, t) ELSE acc.container,
                         opened |-> acc.opened + (IF need THEN got.opened ELSE 0),
                         fetched |-> IF need THEN Append(acc.fetched, t) ELSE acc.fetched])

\* Survey.find_tables.  given is FALSE when tables is None; order is then the
\* order self.tables is iterated in.
FindTables(self, index, st, variable, given, tables, order) ==
    LET start == [status |-> "ok", index |-> index, container |-> << >>,
                  opened |-> 0, fetched |-> << >>]
    IN IF variable = NoName THEN [start EXCEPT !.status = "AssertionError"]
       ELSE IF given THEN FindLoop(self, st, variable, tables, start)
       ELSE IF self.tables = PyNone THEN [start EXCEPT !.status = "TypeError"]
       ELSE FindLoop(self, st, variable, order, start)

-----------------------------------------------------------------------------
(* The calls a program makes.  last records the latest call, its arguments *)
(* and what it returned or raised; colReads counts, per Survey and table,  *)
(* the column lists find_tables has read from the store.                   *)

Occurrences(q, x) == Cardinality({i \in DOMAIN q : q[i] = x})

DropKeys(od, ks) == SelectSeq(od, LAMBDA item : item[1] \notin ks)

\* s = Survey(name, label, hdf5_file_path, survey_collection, **kwargs)
new_Survey(s, name, label, hdf5_file_path, survey_collection, kwargs) ==
    LET made == SurveyInit(name, label, hdf5_file_path, survey_collection, kwargs)
    IN /\ surveys' = IF made.status = "ok" THEN [surveys EXCEPT ![s] = made.obj] ELSE surveys
       /\ last' = [op |-> "__init__", self |-> s, status |-> made.status,
                   args |-> [name |-> name, label |-> label,
                             hdf5_file_path |-> hdf5_file_path,
                             survey_collection |-> survey_collection,
                             kwargs |-> kwargs],
                   result |-> << >>]
       /\ UNCHANGED <<tables_index, store, openHandles, colReads>>

\* s.to_json()
to_json(s) ==
    /\ surveys[s].exists
    /\ last' = [op |-> "to_json", self |-> s, status |-> "ok", args |-> << >>,
                result |-> ToJson(surveys[s])]
    /\ UNCHANGED <<surveys, tables_index, store, openHandles, colReads>>

\* s = Survey.create_from_json(record), the record being the one to_json
\* last returned, without the keys in dropped.
create_from_json(s, dropped) ==
    /\ last.op = "to_json"
    /\ LET record == DropKeys(last.result, dropped)
           made == CreateFromJson(record)
       IN /\ surveys' = IF made.status = "ok" THEN [surveys EXCEPT ![s] = made.obj]
                        ELSE surveys
          /\ last' = [op |-> "create_from_json", self |-> s, status |-> made.status,
                      args |-> [survey_json |-> record, source |-> last.self],
                      result |-> << >>]
    /\ UNCHANGED <<tables_index, store, openHandles, colReads>>

\* s.insert_table(name, **kwargs)
insert_table(s, name, kwargs) ==
    /\ surveys[s].exists
    /\ LET done == InsertTable(surveys[s], name, kwargs)
       IN /\ surveys' = [surveys EXCEPT ![s] = done.obj]
          /\ last' = [op |-> "insert_table", self |-> s, status |-> done.status,
                      args |-> [name |-> name, kwargs |-> kwargs], result |-> << >>]
    /\ UNCHANGED <<tables_index, store, openHandles, colReads>>

\* s.get_columns(table).  The HDFStore it opens is never closed.
get_columns(s, table) ==
    /\ surveys[s].exists
    /\ LET got == GetColumns(surveys[s], store, table)
       IN /\ openHandles' = openHandles + got.opened
          /\ openHandles' <= MaxOpen
          /\ last' = [op |-> "get_columns", self |-> s, status |-> got.status,
                      args |-> [table |-> table], result |-> got.cols]
    /\ UNCHANGED <<surveys, tables_index, store, colReads>>

\* s.find_tables(variable, tables)
find_tables(s, variable, given, tables) ==
    /\ surveys[s].exists
    /\ \E order \in IF given \/ surveys[s].tables = PyNone THEN {<< >>}
                    ELSE Orders(DOMAIN surveys[s].tables.items) :
        LET run == FindTables(surveys[s], IndexOf(s), store, variable, given, tables, order)
        IN /\ tables_index' = run.index
           /\ openHandles' = openHandles + run.opened
           /\ openHandles' <= MaxOpen
           /\ colReads' = [p \in DOMAIN colReads |->
                              IF p[1] = s THEN colReads[p] + Occurrences(run.fetched, p[2])
                              ELSE colReads[p]]
           /\ last' = [op |-> "find_tables", self |-> s, status |-> run.status,
                       args |-> [variable |-> variable, given |-> given,
                                 tables |-> IF given THEN tables ELSE order],
                       result |-> run.container, fetched |-> run.fetched]
    /\ UNCHANGED <<surveys, store>>

\* s.get_value(variable, table)
get_value(s, variable, table) ==
    /\ surveys[s].exists
    /\ LET got == GetValue(surveys[s], store, variable, table)
       IN /\ openHandles' = openHandles + got.opened
          /\ openHandles' <= MaxOpen
          /\ last' = [op |-> "get_value", self |-> s, status |-> got.status,
                      args |-> [variable |-> variable, table |-> table],
                      result |-> got.df, diff |-> got.diff]
    /\ UNCHANGED <<surveys, tables_index, store, colReads>>

\* s.get_values(variables, table, lowercase, rename_ident)
get_values(s, given, variables, table, lowercase, rename_ident) ==
    /\ surveys[s].exists
    /\ \E order \in Orders(variables) :
        LET got == GetValues(surveys[s], store, given, variables, order, table,
                             lowercase, rename_ident)
        IN /\ openHandles' = openHandles + got.opened
           /\ openHandles' <= MaxOpen
           /\ last' = [op |-> "get_values", self |-> s, status |-> got.status,
                       args |-> [given |-> given, variables |-> variables,
                                 table |-> table, lowercase |-> lowercase,
                                 rename_ident |-> rename_ident],
                       result |-> got.df, diff |-> got.diff]
    /\ UNCHANGED <<surveys, tables_index, store, colReads>>

-----------------------------------------------------------------------------
(* Specifications *)

NoCall == [op |-> "none", self |-> "", status |-> "ok"]

\* The stores of the model: the table menage is in both files, with
\* different columns; indiv is stored as phys_indiv in a.h5 alone.
LookupStore ==
    [p \in Paths |->
        IF p = "a.h5"
        THEN ("menage" :> <<c_IDENT08, c_zone>>) @@ ("phys_indiv" :> <<c_zone, c_ident9>>)
        ELSE ("menage" :> <<c_ident9>>) @@ ("indiv" :> <<c_zone>>)]

InitWith(st, svs) ==
    /\ surveys = svs
    /\ tables_index = EmptyMap
    /\ store = st
    /\ openHandles = 0
    /\ colReads = [p \in SurveyIds \X StoreKeys |-> 0]
    /\ last = NoCall

\* Index: two Surveys, each built once over one of the two stores, and the
\* column index.
Init == InitWith(LookupStore, [s \in SurveyIds |-> NoSurvey])

Next ==
    \E s \in SurveyIds :
        \/ \E path \in Paths :
               /\ ~surveys[s].exists
               /\ new_Survey(s, "enq2020", None, path, None, EmptyMap)
        \/ insert_table(s, "menage", EmptyMap)
        \/ \E table \in {"menage", None} : get_columns(s, table)
        \/ \E variable \in {c_zone, NoName}, given \in BOOLEAN,
              tables \in SeqsUpTo(TableNames, MaxCand) :
               /\ ~given => tables = << >>
               /\ find_tables(s, variable, given, tables)

Spec == Init /\ [][Next]_vars

\* Alias: one Survey over a.h5, built or deserialised, and the resolution of
\* its tables in the store.
InitAlias == InitWith(LookupStore, [s \in SurveyIds |-> NoSurvey])

NextAlias ==
    \E s \in {"A"} :
        \/ new_Survey(s, "enq2020", None, "a.h5", None, EmptyMap)
        \/ to_json(s)
        \/ \E dropped \in SUBSET {"tables", "informations"} : create_from_json(s, dropped)
        \/ \E name \in TableNames, kwargs \in Maps(DescKeys, PhysNames) :
               insert_table(s, name, kwargs)
        \/ \E variable \in {c_zone}, given \in BOOLEAN : find_tables(s, variable, given, << >>)
        \/ \E variable \in {c_zone, c_ident, NoName}, table \in StoreKeys :
               get_value(s, variable, table)
        \/ \E table \in StoreKeys, variables \in SUBSET {c_zone} :
               get_values(s, TRUE, variables, table, TRUE, TRUE)

SpecAlias == InitAlias /\ [][NextAlias]_vars

\* Records: one Survey, every argument of the constructor, serialisation.
InitRecord == InitWith(LookupStore, [s \in SurveyIds |-> NoSurvey])

NextRecord ==
    \E s \in {"A"} :
        \/ \E name \in {None, "", "enq2020"}, label \in {None, "Enquete"},
              path \in {None, "a.h5"}, coll \in {None, "collection"},
              kwargs \in Maps(InfoKeys, InfoVals) :
               new_Survey(s, name, label, path, coll, kwargs)
        \/ to_json(s)
        \/ \E dropped \in SUBSET {"name", "tables", "informations"} :
               create_from_json(s, dropped)
        \/ \E kwargs \in Maps(DescKeys, PhysNames) : insert_table(s, "indiv", kwargs)

SpecRecord == InitRecord /\ [][NextRecord]_vars

\* Values: one Survey over a store whose table menage has any columns.
InitValues ==
    \E cols \in DistinctSeqs(ColNames, MaxCols) :
        InitWith([p \in Paths |-> IF p = "a.h5" THEN ("menage" :> cols) ELSE EmptyMap],
                 [s \in SurveyIds |->
                     IF s = "A"
                     THEN SurveyInit("enq2020", None, "a.h5", None, EmptyMap).obj
                     ELSE NoSurvey])

NextValues ==
    \E s \in {"A"} :
        \/ \E given \in BOOLEAN, variables \in SUBSET VarNames,
              lowercase \in BOOLEAN, rename_ident \in BOOLEAN :
               /\ ~given => variables = {}
               /\ get_values(s, given, variables, "menage", lowercase, rename_ident)
        \/ \E variable \in VarNames : get_value(s, variable, "menage")

SpecValues == InitValues /\ [][NextValues]_vars

-----------------------------------------------------------------------------
(* Properties *)

TableKeys(self) == IF self.tables = PyNone THEN {} ELSE DOMAIN self.tables.items

\* C1: a call on one Survey leaves the tables, the informations and the
\* tables_index of every other Survey as they were.
C1_InstancesIndependent ==
    [][\A a \in SurveyIds : \A b \in SurveyIds \ {a} :
          (last'.self = a /\ surveys[b].exists)
              => /\ surveys'[b] = surveys[b]
                 /\ IndexOf(b)' = IndexOf(b)]_vars

\* C2: find_tables(v, T), every table of T being in the Survey's store,
\* returns the tables of T whose stored columns contain v, in the order of T.
C2_FindTablesExact ==
    (/\ last.op = "find_tables"
     /\ last.args.variable # NoName
     /\ surveys[last.self].hdf5_file_path # None
     /\ Range(last.args.tables) \subseteq DOMAIN store[surveys[last.self].hdf5_file_path])
        => /\ last.status = "ok"
           /\ last.result =
                 SelectSeq(last.args.tables,
                           LAMBDA t : last.args.variable \in
                               Range(store[surveys[last.self].hdf5_file_path][t]))

\* C3: find_tables reads the columns of a table from the store at most once
\* per Survey; an entry of tables_index is never changed or removed; and
\* get_columns called directly adds no entry.
C3_IndexedOnce ==
    /\ [](\A p \in DOMAIN colReads : colReads[p] <= 1)
    /\ [][/\ \A t \in DOMAIN tables_index :
                /\ t \in DOMAIN tables_index'
                /\ tables_index'[t] = tables_index[t]
          /\ last'.op = "get_columns" => tables_index' = tables_index]_vars

\* A second find_tables served wholly from the index.
C3_Witness ==
    /\ last.op = "find_tables"
    /\ last.status = "ok"
    /\ last.args.tables # << >>
    /\ last.fetched = << >>
    /\ last.result # << >>
    /\ \E p \in DOMAIN colReads : colReads[p] = 1

\* C4: no store handle opened by a Survey remains open after a call.
C4_HandlesReleased == openHandles = 0

\* C5: to_json emits hdf5_file_path, label, name, tables, informations in
\* that order, informations sorted by key; and create_from_json of that
\* record gives a Survey with the same name, label, hdf5_file_path, tables
\* and informations.
C5_RoundTrip ==
    /\ [](last.op = "to_json" =>
            /\ Keys(last.result) =
                   <<"hdf5_file_path", "label", "name", "tables", "informations">>
            /\ LET infos == ValueAt(last.result, "informations")
               IN /\ \A i, j \in DOMAIN infos : i < j => KeyLess(infos[i][1], infos[j][1])
                  /\ {<<infos[i][1], infos[i][2]>> : i \in DOMAIN infos} =
                       {<<k, surveys[last.self].informations[k]>> :
                            k \in DOMAIN surveys[last.self].informations})
    /\ [][(/\ last'.op = "create_from_json"
           /\ Len(last'.args.survey_json) = Len(last.result))
             => /\ last'.status = "ok"
                /\ surveys'[last'.self].name = surveys[last.self].name
                /\ surveys'[last'.self].label = surveys[last.self].label
                /\ surveys'[last'.self].hdf5_file_path = surveys[last.self].hdf5_file_path
                /\ surveys'[last'.self].tables = surveys[last.self].tables
                /\ surveys'[last'.self].informations = surveys[last.self].informations]_vars

\* A Survey with a label, a path, a table and two metadata keys went
\* through to_json and create_from_json.
C5_Witness ==
    /\ last.op = "create_from_json"
    /\ last.status = "ok"
    /\ Len(last.args.survey_json) = 5
    /\ surveys[last.self].label # None
    /\ surveys[last.self].hdf5_file_path # None
    /\ surveys[last.self].tables # PyNone
    /\ surveys[last.self].tables # PyDict(EmptyMap)
    /\ DOMAIN surveys[last.self].informations = InfoKeys

\* C6: create_from_json of a record without the key tables gives a Survey
\* whose tables is the empty mapping, and without the key informations one
\* whose informations is the empty mapping.
C6_AbsentIsEmpty ==
    (last.op = "create_from_json" /\ last.status = "ok")
        => /\ ~HasKey(last.args.survey_json, "tables")
                => surveys[last.self].tables = PyDict(EmptyMap)
           /\ ~HasKey(last.args.survey_json, "informations")
                => surveys[last.self].informations = EmptyMap

\* C7 as amended: the constructor fails exactly when name is None; every
\* Survey has a name that is not None; after a successful construction the
\* name is the one given, tables is empty and informations is the keyword
\* arguments.
C7_NamePresent ==
    /\ \A s \in SurveyIds : surveys[s].exists => surveys[s].name # None
    /\ last.op = "__init__" =>
          /\ last.args.name = None => last.status = "AssertionError"
          /\ last.args.name # None =>
                /\ last.status = "ok"
                /\ surveys[last.self].name = last.args.name
                /\ surveys[last.self].tables = PyDict(EmptyMap)
                /\ surveys[last.self].informations = last.args.kwargs

\* A Survey built with the empty name and two keyword arguments.
C7_Witness ==
    /\ last.op = "__init__"
    /\ last.status = "ok"
    /\ last.args.name = ""
    /\ DOMAIN last.args.kwargs = InfoKeys
    /\ surveys[last.self].name = ""

\* C7 as stated: the constructor fails when name is None or empty, so every
\* Survey has a non-empty name; the rest as above.
C7_NameNonEmpty ==
    /\ \A s \in SurveyIds : surveys[s].exists => surveys[s].name \notin {None, ""}
    /\ last.op = "__init__" =>
          /\ last.args.name \in {None, ""} => last.status = "AssertionError"
          /\ last.args.name \notin {None, ""} =>
                /\ last.status = "ok"
                /\ surveys[last.self].name = last.args.name
                /\ surveys[last.self].tables = PyDict(EmptyMap)
                /\ surveys[last.self].informations = last.args.kwargs

\* C8: get_values takes the table under its own name in the store, else
\* under tables[table]["Rdata_table"], and raises KeyError when neither is
\* there; get_value of a stored column of a table that is a store key but
\* no key of tables returns that column.
C8_Resolution ==
    /\ (last.op = "get_values" /\ surveys[last.self].hdf5_file_path # None) =>
          LET self == surveys[last.self]
              tbls == store[self.hdf5_file_path]
              t == last.args.table
              direct == t \in DOMAIN tbls
              alias == /\ t \in TableKeys(self)
                       /\ "Rdata_table" \in DOMAIN self.tables.items[t]
                       /\ self.tables.items[t]["Rdata_table"] \in DOMAIN tbls
          IN /\ (~direct /\ ~alias) => last.status = "KeyError"
             /\ direct => /\ last.status \in {"ok", "Exception"}
                          /\ \A i \in DOMAIN last.result :
                                 last.result[i].data \in Range(tbls[t])
             /\ (~direct /\ alias) =>
                    /\ last.status \in {"ok", "Exception"}
                    /\ \A i \in DOMAIN last.result :
                           last.result[i].data \in
                               Range(tbls[self.tables.items[t]["Rdata_table"]])
    /\ (/\ last.op = "get_value"
        /\ last.args.variable # NoName
        /\ surveys[last.self].hdf5_file_path # None
        /\ last.args.table \notin TableKeys(surveys[last.self])
        /\ last.args.table \in DOMAIN store[surveys[last.self].hdf5_file_path]
        /\ last.args.variable \in
              Range(Columns(Normalised(
                  Frame(store[surveys[last.self].hdf5_file_path][last.args.table]),
                  TRUE, TRUE))))
          => /\ last.status = "ok"
             /\ Columns(last.result) = <<last.args.variable>>

\* The frame get_values has before it looks for an ident column.
BeforeRename(cols, lowercase) ==
    [i \in DOMAIN cols |->
        [name |-> IF lowercase THEN Lower(cols[i]) ELSE cols[i], data |-> cols[i]]]

HasMatch(df) == \E i \in DOMAIN df : IdentMatch(df[i].name)

FirstMatch(df) ==
    CHOOSE i \in DOMAIN df :
        /\ IdentMatch(df[i].name)
        /\ \A j \in 1..(i - 1) : ~IdentMatch(df[j].name)

\* C9 as amended: with rename_ident the first column whose name matches is
\* renamed ident, its values kept, and with it every column that carries
\* that same name (two names that lowercasing made equal); every column of
\* another name, matching or not, is left as it is; without a match nothing
\* is renamed.
C9_RenameFirstName ==
    (/\ last.op = "get_values"
     /\ last.status = "ok"
     /\ ~last.args.given
     /\ last.args.rename_ident)
        => LET before == BeforeRename(store[surveys[last.self].hdf5_file_path]
                                           [last.args.table], last.args.lowercase)
               after == last.result
           IN /\ DOMAIN after = DOMAIN before
              /\ \A i \in DOMAIN before : after[i].data = before[i].data
              /\ ~HasMatch(before) => after = before
              /\ HasMatch(before) =>
                    \A i \in DOMAIN before :
                        after[i].name =
                            IF before[i].name = before[FirstMatch(before)].name
                            THEN c_ident ELSE before[i].name

\* Two columns match: the first is renamed, the second keeps its name.
C9_Witness ==
    /\ last.op = "get_values"
    /\ last.status = "ok"
    /\ ~last.args.given
    /\ last.args.rename_ident
    /\ last.args.lowercase
    /\ store[surveys[last.self].hdf5_file_path][last.args.table] = <<c_IDENT08, c_Ident2024>>
    /\ last.result = << [name |-> c_ident, data |-> c_IDENT08],
                        [name |-> Lower(c_Ident2024), data |-> c_Ident2024] >>

\* C9 as stated: at most one column is renamed, the first that matches; every
\* other column keeps its name.
C9_RenameOneColumn ==
    (/\ last.op = "get_values"
     /\ last.status = "ok"
     /\ ~last.args.given
     /\ last.args.rename_ident)
        => LET before == BeforeRename(store[surveys[last.self].hdf5_file_path]
                                           [last.args.table], last.args.lowercase)
               after == last.result
           IN /\ DOMAIN after = DOMAIN before
              /\ \A i \in DOMAIN before : after[i].data = before[i].data
              /\ ~HasMatch(before) => after = before
              /\ HasMatch(before) =>
                    \A i \in DOMAIN before :
                        after[i].name =
                            IF i = FirstMatch(before) THEN c_ident ELSE before[i].name

\* C10: with variables given, get_values raises with exactly the variables
\* that are no column after the renaming steps, and when there is none
\* returns a frame whose columns are exactly the variables; with variables
\* None it returns every column.
C10_MissingVariables ==
    (/\ last.op = "get_values"
     /\ surveys[last.self].hdf5_file_path # None
     /\ last.args.table \in DOMAIN store[surveys[last.self].hdf5_file_path])
        => LET present == Columns(Normalised(
                              Frame(store[surveys[last.self].hdf5_file_path][last.args.table]),
                              last.args.lowercase, last.args.rename_ident))
               wanted == last.args.variables
           IN /\ (last.args.given /\ wanted \ Range(present) # {}) =>
                    /\ last.status = "Exception"
                    /\ last.diff = wanted \ Range(present)
              /\ (last.args.given /\ wanted \subseteq Range(present)) =>
                    /\ last.status = "ok"
                    /\ Range(Columns(last.result)) = wanted
              /\ ~last.args.given =>
                    /\ last.status = "ok"
                    /\ Columns(last.result) = present

\* Two variables asked, one of them missing.
C10_Witness ==
    /\ last.op = "get_values"
    /\ last.status = "Exception"
    /\ last.args.variables = {c_ident, c_zone}
    /\ last.diff = {c_ident}

====
